---- MODULE Spec2Model ----
(***************************************************************************)
(* Model of the two stateful components of the Godot MCP server:           *)
(*   - GodotExecutor   (src/src/godot/executor.ts): execute() and          *)
(*     runInlineScript()                                                   *)
(*   - GodotLSPClient  (src/src/godot/lsp-client.ts): connect(),           *)
(*     disconnect(), isConnected(), sendRequest(), handleMessage()         *)
(*                                                                         *)
(* Every action is one turn of the Node.js event loop: a public call, a    *)
(* timer callback or an event handler, together with the promise           *)
(* continuations (microtasks) that the turn makes runnable.                *)
(*                                                                         *)
(* Optional values (undefined / null in the source) are sequences of       *)
(* length at most one: <<>> is "absent", <<v>> is "present with value v".  *)
(***************************************************************************)
EXTENDS Integers, Sequences, FiniteSets, TLC

\* ------------------------------------------------------------------------
\* Bounds of the model
\* ------------------------------------------------------------------------
\* number of execute()/runInlineScript() calls on one executor instance
NumCalls == 2
\* number of 'data' events per output stream of one process
MaxData == 2
\* number of calls made on one LSP client: connect() and the higher-level
\* operations (validateFile, ...); disconnect() is not counted
MaxClientCalls == 2
\* number of lines in one socket 'data' event
MaxLines == 2

\* ------------------------------------------------------------------------
\* Executor state (one entry per call)
\* ------------------------------------------------------------------------
VARIABLES
    ex,           \* "idle", or the outcome of spawn(): "ok" | "fail"
    capture,      \* the captureOutput option of the call
    proc,         \* "none" | "spawnfail" | "errored" | "running" | "closed"
    ignoresTerm,  \* environment: the spawned process does not die on SIGTERM
    killed,       \* childProcess.kill('SIGTERM') has been called
    output,       \* the accumulator `output` (sequence of chunks)
    errorOutput,  \* the accumulator `errorOutput`
    nOut,         \* number of stdout 'data' events emitted so far
    nErr,         \* number of stderr 'data' events emitted so far
    timer,        \* "unset" | "armed" | "fired" | "cleared"
    results,      \* values delivered to the caller of execute() (the promise)
    closeCode,    \* history: the code argument of the 'close' event, if seen
    handlerRuns,  \* history: the handlers that ran and the result each built
    inlPc,        \* "none" | "writing" | "running" | "unlinking" | "returned"
    file,         \* scratch file of the call: "absent" | "partial" | "present"
    writeRes,     \* history: outcome of writeFile, "none" before it settles
    unlinkTried,  \* history: unlink(tempFile) has been called
    inlResult,    \* value returned by runInlineScript (sequence of length <= 1)
    path          \* name of the scratch file of the call, 0 before it is made

execVars == <<ex, capture, proc, ignoresTerm, killed, output, errorOutput,
              nOut, nErr, timer, results, closeCode, handlerRuns,
              inlPc, file, writeRes, unlinkTried, inlResult, path>>

\* ------------------------------------------------------------------------
\* LSP client state: one record
\*   client          this.client: 0 is null, s > 0 the socket made by the
\*                   s-th connect() call
\*   messageId       this.messageId
\*   pendingRequests this.pendingRequests: id -> the sendRequest call whose
\*                   {resolve, reject} is stored under the id
\*   sock            per socket: "none" | "connecting" | "open" | "destroyed"
\*   connRes         per connect() call: "idle" | "pending" | "true" | "false"
\*   connOwner       who called connect(): "user" | "op" (an auto-connect)
\*   connTrace       history: the handshake steps done for that connect() call
\*   reqId, reqState, reqTimer, reqOwner
\*                   per sendRequest call, in call order: the id it took,
\*                   "pending" | "resolved" | "rejected", whether its timer
\*                   is still to fire, and the connect() call whose
\*                   `initialize` it is (0 for a request of an operation)
\*   wire            per socket: ids written to it that the peer has not
\*                   answered
\*   nCalls          number of connect() and operation calls made
\*   everDisc        history: disconnect() has destroyed a socket
\*   reqValue        the value each sendRequest call was resolved with
\*   dropped         history: an envelope matched no pending request
\*   reqHs           history: the request was sent while this.client was a
\*                   socket whose connect() had resolved true
\*   connPend        history: size of the pending map when connect() call c
\*                   resolved true, -1 before
\* ------------------------------------------------------------------------
VARIABLE lsp

\* ------------------------------------------------------------------------
\* One evaluation of a reply-processing function: a record
\*   pc        "idle" | "call" | "done"
\*   op        the function called
\*   outcome   how the operation got its reply: "notConnected" (line 85),
\*             "rejected" (sendRequest rejected) or "resolved"
\*   reply     the value sendRequest resolved with
\*   reachable environment: a language server listens on the configured port
\*   ret       the value returned
\* ------------------------------------------------------------------------
VARIABLE fn

\* ------------------------------------------------------------------------
\* The scene file edited by godot_load_sprite: a record
\*   lines     the lines of the file
\*   nCalls    number of godot_load_sprite calls made
\*   before    the lines before the last call
\*   found     the last call found its Sprite2D node
\* ------------------------------------------------------------------------
VARIABLE scene

vars == <<execVars, lsp, fn, scene>>

Calls == 1..NumCalls

\* exit codes a process can report; <<>> is `null` (ended by a signal)
ExitCodes == {<<0>>, <<1>>, <<>>}
\* the code Node reports on 'close' after a failed spawn (negative errno)
SpawnFailCode == <<-2>>

\* the text carried by one 'data' event
Chunk == "x"

\* a one-token text, used for the fixed and the system error messages
Msg(s) == <<s>>

\* ------------------------------------------------------------------------
\* The three results execute() can build
\* ------------------------------------------------------------------------
\* variant: the timeout result drops the captured output
TimeoutResultNoOutput(out) ==
    [success |-> FALSE, output |-> <<>>,
     error |-> <<Msg("Process timed out")>>, exitCode |-> <<-1>>]

\* resolve({ success: false, output, error: 'Process timed out', exitCode: -1 })
TimeoutResult(out) ==
    [success |-> FALSE, output |-> out,
     error |-> <<Msg("Process timed out")>>, exitCode |-> <<-1>>]

\* variant: `error: errorOutput` without the `|| undefined`
CloseResultAlwaysError(code, out, err) ==
    [success |-> (code = <<0>>), output |-> out, error |-> <<err>>,
     exitCode |-> code]

\* resolve({ success: code === 0, output, error: errorOutput || undefined,
\*           exitCode: code ?? undefined })
CloseResult(code, out, err) ==
    [success |-> (code = <<0>>), output |-> out,
     error |-> IF err # <<>> THEN <<err>> ELSE <<>>, exitCode |-> code]

\* variant: the error result leaves exitCode out
ErrorResultNoCode(msg) ==
    [success |-> FALSE, output |-> <<>>, error |-> <<msg>>, exitCode |-> <<>>]

\* resolve({ success: false, output: '', error: err.message, exitCode: -1 })
ErrorResult(msg) ==
    [success |-> FALSE, output |-> <<>>, error |-> <<msg>>, exitCode |-> <<-1>>]

\* variant: a later resolve() replaces the value already delivered
PromiseResolveOverwrite(cur, r) == <<r>>

\* A promise settles once: resolve() on a settled promise does nothing.
PromiseResolve(cur, r) == IF cur = <<>> THEN <<r>> ELSE cur

\* ------------------------------------------------------------------------
\* Initial state: a freshly constructed executor, no call made
\* ------------------------------------------------------------------------
ExecInit ==
    /\ ex = [c \in Calls |-> "idle"]
    /\ capture = [c \in Calls |-> TRUE]
    /\ proc = [c \in Calls |-> "none"]
    /\ ignoresTerm = [c \in Calls |-> FALSE]
    /\ killed = [c \in Calls |-> FALSE]
    /\ output = [c \in Calls |-> <<>>]
    /\ errorOutput = [c \in Calls |-> <<>>]
    /\ nOut = [c \in Calls |-> 0]
    /\ nErr = [c \in Calls |-> 0]
    /\ timer = [c \in Calls |-> "unset"]
    /\ results = [c \in Calls |-> <<>>]
    /\ closeCode = [c \in Calls |-> <<>>]
    /\ handlerRuns = [c \in Calls |-> <<>>]
    /\ inlPc = [c \in Calls |-> "none"]
    /\ file = [c \in Calls |-> "absent"]
    /\ writeRes = [c \in Calls |-> "none"]
    /\ unlinkTried = [c \in Calls |-> FALSE]
    /\ inlResult = [c \in Calls |-> <<>>]
    /\ path = [c \in Calls |-> 0]

\* ------------------------------------------------------------------------
\* execute(): the synchronous body of the promise executor (lines 35-84)
\* ------------------------------------------------------------------------
\* spawnOutcome: "ok"   - a process was started
\*               "fail" - spawn failed; Node emits 'error' on the next tick
\*                        and 'close' after it
\* The timer is set (line 55) whatever spawn() did.
ExecuteBody(c, cap, spawnOutcome, ign) ==
    /\ capture' = [capture EXCEPT ![c] = cap]
    /\ output' = [output EXCEPT ![c] = <<>>]
    /\ errorOutput' = [errorOutput EXCEPT ![c] = <<>>]
    /\ ex' = [ex EXCEPT ![c] = spawnOutcome]
    /\ proc' = [proc EXCEPT ![c] =
                  IF spawnOutcome = "ok" THEN "running" ELSE "spawnfail"]
    /\ ignoresTerm' = [ignoresTerm EXCEPT ![c] = ign]
    /\ timer' = [timer EXCEPT ![c] = "armed"]

SpawnOutcomes == {"ok", "fail"}

\* a direct call of execute() (also through runScript, runProject, ...)
Execute(c) ==
    /\ ex[c] = "idle"
    /\ inlPc[c] = "none"
    /\ \E cap \in BOOLEAN, so \in SpawnOutcomes, ign \in BOOLEAN :
         /\ (so # "ok" => ~ign)
         /\ ExecuteBody(c, cap, so, ign)
    /\ UNCHANGED <<lsp, fn, scene, path, killed, nOut, nErr, results, closeCode, handlerRuns,
                   inlPc, file, writeRes, unlinkTried, inlResult>>

\* childProcess.stdout.on('data', ...): appends when captureOutput is set
StdoutData(c) ==
    /\ proc[c] = "running"
    /\ nOut[c] < MaxData
    /\ nOut' = [nOut EXCEPT ![c] = @ + 1]
    /\ output' = [output EXCEPT ![c] = IF capture[c] THEN Append(@, Chunk) ELSE @]
    /\ UNCHANGED <<lsp, fn, scene, path, ex, capture, proc, ignoresTerm, killed, errorOutput, nErr,
                   timer, results, closeCode, handlerRuns, inlPc, file,
                   writeRes, unlinkTried, inlResult>>

\* childProcess.stderr.on('data', ...)
StderrData(c) ==
    /\ proc[c] = "running"
    /\ nErr[c] < MaxData
    /\ nErr' = [nErr EXCEPT ![c] = @ + 1]
    /\ errorOutput' = [errorOutput EXCEPT ![c] =
                         IF capture[c] THEN Append(@, Chunk) ELSE @]
    /\ UNCHANGED <<lsp, fn, scene, path, ex, capture, proc, ignoresTerm, killed, output, nOut,
                   timer, results, closeCode, handlerRuns, inlPc, file,
                   writeRes, unlinkTried, inlResult>>

\* What every handler does with the promise: resolve(r), and the
\* continuation of runInlineScript (line 137: await unlink) that a first
\* settlement makes runnable.
Settle(c, who, r) ==
    /\ results' = [results EXCEPT ![c] = PromiseResolve(@, r)]
    /\ handlerRuns' = [handlerRuns EXCEPT ![c] = Append(@, [who |-> who, r |-> r])]
    /\ IF inlPc[c] = "running" /\ results[c] = <<>>
       THEN /\ inlPc' = [inlPc EXCEPT ![c] = "unlinking"]
            /\ unlinkTried' = [unlinkTried EXCEPT ![c] = TRUE]
       ELSE UNCHANGED <<inlPc, unlinkTried>>

\* the handler that ran first for call c, "none" when none has run
First(c) == IF handlerRuns[c] = <<>> THEN "none" ELSE handlerRuns[c][1].who

\* the setTimeout callback (lines 55-63).  The 'error' event of a failed
\* spawn is emitted on the next tick, hence before any timer can fire.
\* kill('SIGTERM') is modelled as the delivery of the signal.
OnTimeout(c) ==
    /\ timer[c] = "armed"
    /\ proc[c] # "spawnfail"
    /\ timer' = [timer EXCEPT ![c] = "fired"]
    /\ killed' = [killed EXCEPT ![c] = TRUE]
    /\ Settle(c, "timeout", TimeoutResult(output[c]))
    /\ UNCHANGED <<lsp, fn, scene, path, ex, capture, proc, ignoresTerm, output, errorOutput, nOut,
                   nErr, closeCode, file, writeRes, inlResult>>

\* variant: the timer is left running
ClearTimeoutNoop(t) == t

\* clearTimeout(timeoutId): cancels a timer that has not fired yet
ClearTimeout(t) == IF t = "armed" THEN "cleared" ELSE t

\* the 'close' handler (lines 65-73)
CloseHandler(c, code) ==
    /\ proc' = [proc EXCEPT ![c] = "closed"]
    /\ timer' = [timer EXCEPT ![c] = ClearTimeout(@)]
    /\ closeCode' = [closeCode EXCEPT ![c] = <<code>>]
    /\ Settle(c, "close", CloseResult(code, output[c], errorOutput[c]))
    /\ UNCHANGED <<lsp, fn, scene, path, ex, capture, ignoresTerm, killed, output, errorOutput, nOut,
                   nErr, file, writeRes, inlResult>>

\* the process ends by itself or by a signal from outside: 'close'
OnClose(c) ==
    /\ proc[c] = "running"
    /\ \E code \in ExitCodes : CloseHandler(c, code)

\* the process dies of the SIGTERM sent by the timeout callback: 'close'
\* with code null
OnSigtermClose(c) ==
    /\ proc[c] = "running"
    /\ killed[c]
    /\ ~ignoresTerm[c]
    /\ CloseHandler(c, <<>>)

\* the 'error' handler (lines 75-83), run for a failed spawn
OnError(c) ==
    /\ proc[c] = "spawnfail"
    /\ proc' = [proc EXCEPT ![c] = "errored"]
    /\ timer' = [timer EXCEPT ![c] = ClearTimeout(@)]
    /\ Settle(c, "error", ErrorResult(Msg("spawn error")))
    /\ UNCHANGED <<lsp, fn, scene, path, ex, capture, ignoresTerm, killed, output, errorOutput, nOut,
                   nErr, closeCode, file, writeRes, inlResult>>

\* 'close' is emitted after the 'error' of a failed spawn
OnCloseAfterError(c) ==
    /\ proc[c] = "errored"
    /\ CloseHandler(c, SpawnFailCode)

\* ------------------------------------------------------------------------
\* runInlineScript() (lines 131-147)
\* ------------------------------------------------------------------------
\* the scratch file names
Paths == 1..NumCalls

\* variant: every call uses the same file name
RandomUUIDFixed(used) == {1}

\* randomUUID() (line 132): a random 122-bit value, taken to differ from
\* every value drawn before
RandomUUID(used) == Paths \ used

\* line 132-135: the path is made from a random UUID and writeFile is started
RunInlineScript(c) ==
    /\ ex[c] = "idle"
    /\ inlPc[c] = "none"
    /\ inlPc' = [inlPc EXCEPT ![c] = "writing"]
    /\ \E p \in RandomUUID({path[d] : d \in Calls} \ {0}) :
         path' = [path EXCEPT ![c] = p]
    /\ UNCHANGED <<lsp, fn, scene, ex, capture, proc, ignoresTerm, killed, output, errorOutput,
                   nOut, nErr, timer, results, closeCode, handlerRuns,
                   file, writeRes, unlinkTried, inlResult>>

\* variant: the catch block also calls unlink(tempFile)
InlineCatchUnlinks(c, msg) ==
    /\ inlPc' = [inlPc EXCEPT ![c] = "returned"]
    /\ inlResult' = [inlResult EXCEPT ![c] = <<ErrorResult(msg)>>]
    /\ unlinkTried' = [unlinkTried EXCEPT ![c] = TRUE]

\* the catch block (lines 139-146): builds the return value, nothing else
InlineCatch(c, msg) ==
    /\ inlPc' = [inlPc EXCEPT ![c] = "returned"]
    /\ inlResult' = [inlResult EXCEPT ![c] = <<ErrorResult(msg)>>]
    /\ UNCHANGED unlinkTried

\* writeFile settles.  "ok": the file is written and line 136 calls
\* runScript -> execute.  "fail": nothing was created.  "partial": the file
\* was created and the write failed afterwards (disk full).  Both failures
\* reject.
WriteOutcomes == {"ok", "fail", "partial"}

WriteFileDone(c) ==
    /\ inlPc[c] = "writing"
    /\ \E w \in WriteOutcomes :
         /\ writeRes' = [writeRes EXCEPT ![c] = w]
         /\ IF w = "ok"
            THEN /\ file' = [file EXCEPT ![c] = "present"]
                 /\ \E so \in SpawnOutcomes, ign \in BOOLEAN :
                      /\ (so # "ok" => ~ign)
                      /\ ExecuteBody(c, TRUE, so, ign)
                 /\ inlPc' = [inlPc EXCEPT ![c] = "running"]
                 /\ UNCHANGED <<inlResult, unlinkTried>>
            ELSE /\ file' = [file EXCEPT ![c] =
                               IF w = "partial" THEN "partial" ELSE "absent"]
                 /\ InlineCatch(c, Msg("write error"))
                 /\ UNCHANGED <<ex, capture, proc, ignoresTerm, output,
                                errorOutput, timer>>
    /\ UNCHANGED <<lsp, fn, scene, path, killed, nOut, nErr, results, closeCode, handlerRuns>>

\* unlink(tempFile) settles (line 137); a rejection goes to the catch block
UnlinkDone(c) ==
    /\ inlPc[c] = "unlinking"
    /\ \E ok \in BOOLEAN :
         IF ok
         THEN /\ file' = [file EXCEPT ![c] = "absent"]
              /\ inlPc' = [inlPc EXCEPT ![c] = "returned"]
              /\ inlResult' = [inlResult EXCEPT ![c] = <<results[c][1]>>]
              /\ UNCHANGED unlinkTried
         ELSE /\ UNCHANGED file
              /\ InlineCatch(c, Msg("unlink error"))
    /\ UNCHANGED <<lsp, fn, scene, path, ex, capture, proc, ignoresTerm, killed, output, errorOutput,
                   nOut, nErr, timer, results, closeCode, handlerRuns,
                   writeRes>>

\* ------------------------------------------------------------------------
\* GodotLSPClient.  The operators below take a client state and return the
\* state after the code has run; an action composes the handler with the
\* promise continuations it makes runnable.
\* ------------------------------------------------------------------------
\* every call makes at most one socket
Conns == 1..MaxClientCalls

\* constructor (lines 19-29)
NewClient ==
          [client |-> 0,
           messageId |-> 0,
           pendingRequests |-> <<>>,
           sock |-> [c \in Conns |-> "none"],
           connRes |-> [c \in Conns |-> "idle"],
           connOwner |-> [c \in Conns |-> "user"],
           connTrace |-> [c \in Conns |-> <<>>],
           reqId |-> <<>>,
           reqState |-> <<>>,
           reqTimer |-> <<>>,
           reqOwner |-> <<>>,
           reqValue |-> <<>>,
           reqHs |-> <<>>,
           connPend |-> [c \in Conns |-> -1],
           dropped |-> FALSE,
           wire |-> [c \in Conns |-> {}],
           nCalls |-> 0,
           everDisc |-> FALSE]

LspInit == lsp = NewClient

\* isConnected() (lines 73-75)
IsConnected(st) == st.client # 0 /\ st.sock[st.client] # "destroyed"

\* a write() reaches the peer only through a socket that is not destroyed;
\* what is written while the socket is connecting is flushed when it opens
Writable(st, s) == st.sock[s] \in {"connecting", "open"}

\* socket s is destroyed: nothing more is read from it or written to it
Destroy(st, s) == [st EXCEPT !.sock[s] = "destroyed", !.wire[s] = {}]

\* variant: the entry is left in the map
MapDeleteNoop(m, id) == m

\* Map.delete
MapDelete(m, id) == [i \in DOMAIN m \ {id} |-> m[i]]

\* variant: the id is derived from the number of pending requests
NextIdFromPending(st) == Cardinality(DOMAIN st.pendingRequests) + 1

\* const id = ++this.messageId (line 179)
NextId(st) == st.messageId + 1

\* sendRequest() after the null check (lines 179-198); owner is the connect()
\* call whose `initialize` this is, 0 for a request of an operation
SendRequest(st, owner) ==
    LET id == NextId(st)
        k == Len(st.reqId) + 1
        s == st.client
    IN [st EXCEPT !.messageId = id,
                  !.pendingRequests = (id :> k) @@ @,
                  !.reqId = Append(@, id),
                  !.reqState = Append(@, "pending"),
                  !.reqTimer = Append(@, TRUE),
                  !.reqOwner = Append(@, owner),
                  !.reqValue = Append(@, <<>>),
                  !.reqHs = Append(@, st.connRes[s] = "true"),
                  !.wire[s] = IF Writable(st, s) THEN @ \cup {id} ELSE @]

\* the rest of an operation once its `await this.connect()` is over
\* (lines 85-92): return the empty result, or send the request
OpAfterConnect(st) == IF IsConnected(st) THEN SendRequest(st, 0) ELSE st

\* resolve(val) of the promise of connect() call c, and the continuation of
\* the operation that awaits it
ConnResolve(st, c, val) ==
    IF st.connRes[c] # "pending"
    THEN st
    ELSE LET st1 == [st EXCEPT !.connRes[c] = val,
                               !.connPend[c] =
                                  IF val = "true"
                                  THEN Cardinality(DOMAIN st.pendingRequests)
                                  ELSE @]
         IN IF st.connOwner[c] = "op" THEN OpAfterConnect(st1) ELSE st1

\* .then(() => { this.sendNotification('initialized', {}); resolve(true) })
\* (lines 44-47, 201-211): the notification is written when this.client is
\* set, and reaches the peer when that socket is not destroyed
InitializeThen(st, c) ==
    LET st1 == [st EXCEPT !.connTrace[c] = Append(@, "response")]
        sent == st.client # 0 /\ Writable(st, st.client)
        st2 == IF sent
               THEN [st1 EXCEPT !.connTrace[c] = Append(@, "initialized")]
               ELSE st1
    IN ConnResolve(st2, c, "true")

\* new net.Socket(); this.client.connect(...) (lines 36-38)
ConnectCall(st, c, owner) ==
    [st EXCEPT !.client = c,
               !.sock[c] = "connecting",
               !.connRes[c] = "pending",
               !.connOwner[c] = owner]

\* the connect() calls made so far
NumConnects(st) == Cardinality({c \in Conns : st.connRes[c] # "idle"})

\* connect() called by the user of the client
Connect ==
    /\ lsp.nCalls < MaxClientCalls
    /\ lsp' = ConnectCall([lsp EXCEPT !.nCalls = @ + 1],
                          NumConnects(lsp) + 1, "user")
    /\ UNCHANGED <<execVars, fn, scene>>

\* validateFile / getCompletions / getHover / findDefinitions up to their
\* first await (lines 80-92): auto-connect, or send the request at once
OpCall ==
    /\ lsp.nCalls < MaxClientCalls
    /\ LET st == [lsp EXCEPT !.nCalls = @ + 1]
       IN IF IsConnected(lsp)
          THEN lsp' = SendRequest(st, 0)
          ELSE lsp' = ConnectCall(st, NumConnects(lsp) + 1, "op")
    /\ UNCHANGED <<execVars, fn, scene>>

\* the 'connect' callback of socket c (lines 38-48): sendRequest throws when
\* this.client is null, and the catch resolves false
SocketOpen(c) ==
    /\ lsp.sock[c] = "connecting"
    /\ LET st == [lsp EXCEPT !.sock[c] = "open",
                             !.connTrace[c] = Append(@, "open")]
       IN IF st.client = 0
          THEN lsp' = ConnResolve(st, c, "false")
          ELSE lsp' = SendRequest(
                        IF Writable(st, st.client)
                        THEN [st EXCEPT !.connTrace[c] = Append(@, "initialize")]
                        ELSE st, c)
    /\ UNCHANGED <<execVars, fn, scene>>

\* the 'error' handler of socket c (lines 50-52); the socket that reports
\* an error is destroyed
SocketError(c) ==
    /\ lsp.sock[c] \in {"connecting", "open"}
    /\ lsp' = ConnResolve(Destroy(lsp, c), c, "false")
    /\ UNCHANGED <<execVars, fn, scene>>

\* the peer closes the connection: no handler is registered for it
SocketClose(c) ==
    /\ lsp.sock[c] = "open"
    /\ lsp' = Destroy(lsp, c)
    /\ UNCHANGED <<execVars, fn, scene>>

\* variant: the socket is ended gracefully and the reference is kept
DisconnectEndOnly(st) == st

\* disconnect() (lines 63-68)
DisconnectCall(st) ==
    IF st.client # 0
    THEN [Destroy(st, st.client) EXCEPT !.client = 0, !.everDisc = TRUE]
    ELSE st

\* disconnect() called by the user of the client
Disconnect ==
    /\ lsp' = DisconnectCall(lsp)
    /\ UNCHANGED <<execVars, fn, scene>>

\* One line of a 'data' event: unparseable text, or an envelope with its id
\* (0 when the envelope has none) and the field in which the peer placed
\* the payload.
Fields == {"params", "result"}
Payload == "payload"
BadLine == [bad |-> TRUE, id |-> 0, field |-> "params"]
Envelope(id, field) == [bad |-> FALSE, id |-> id, field |-> field]

\* the two pieces of the text of an envelope cut between two 'data' events:
\* neither piece is a JSON text, so JSON.parse throws on each
FirstPart(env) == [bad |-> TRUE, id |-> env.id, field |-> env.field]
SecondPart(env) == [bad |-> TRUE, id |-> env.id, field |-> env.field]

\* parsed.params (line 223): undefined when the envelope has no `params`
ParsedParams(line) == IF line.field = "params" THEN <<Payload>> ELSE <<>>

\* variant: an envelope that matches nothing empties the map
IgnoreClearsPending(st) == [st EXCEPT !.dropped = TRUE, !.pendingRequests = <<>>]

\* an envelope that fails the test of line 220 is skipped (lines 220-224)
Ignore(st) == [st EXCEPT !.dropped = TRUE]

\* the loop of handleMessage (lines 215-228): JSON.parse of a bad line
\* throws out of the loop, so the lines after it are not looked at; `dropped`
\* records that an envelope matched no pending request.
\* Returns the state and the sendRequest calls resolved, in order.
RECURSIVE HandleLines(_, _, _)
HandleLines(st, lines, done) ==
    IF lines = <<>> \/ Head(lines).bad
    THEN [st |-> st, resolved |-> done]
    ELSE LET id == Head(lines).id
         IN IF id # 0 /\ id \in DOMAIN st.pendingRequests
            THEN LET k == st.pendingRequests[id]
                     fresh == st.reqState[k] = "pending"
                 IN HandleLines(
                      [st EXCEPT !.pendingRequests = MapDelete(@, id),
                                 !.reqState[k] = IF fresh THEN "resolved" ELSE @,
                                 !.reqValue[k] =
                                    IF fresh THEN ParsedParams(Head(lines)) ELSE @],
                      Tail(lines),
                      IF fresh THEN Append(done, k) ELSE done)
            ELSE HandleLines(Ignore(st), Tail(lines), done)

\* the continuations of the requests resolved by one 'data' event
RECURSIVE RunThens(_, _)
RunThens(st, ks) ==
    IF ks = <<>>
    THEN st
    ELSE LET c == st.reqOwner[Head(ks)]
         IN RunThens(IF c # 0 THEN InitializeThen(st, c) ELSE st, Tail(ks))

\* handleMessage(data) and the continuations it makes runnable
HandleMessage(st, lines) ==
    LET h == HandleLines(st, lines, <<>>) IN RunThens(h.st, h.resolved)

\* the ids in a sequence of lines
LineIds(lines) == {lines[i].id : i \in DOMAIN lines}

\* the data events the peer can send on socket s: answers to the requests it
\* has received, envelopes without id, unparseable text
LinesOn(s) ==
    LET alphabet == {Envelope(id, f) : id \in lsp.wire[s], f \in Fields}
                    \cup {Envelope(0, "params"), BadLine}
    IN UNION {[1..n -> alphabet] : n \in 1..MaxLines}

\* the 'data' handler of socket s (lines 54-56)
SocketData(s) ==
    /\ lsp.sock[s] = "open"
    /\ \E lines \in LinesOn(s) :
         lsp' = HandleMessage([lsp EXCEPT !.wire[s] = @ \ LineIds(lines)], lines)
    /\ UNCHANGED <<execVars, fn, scene>>

\* variant: the callback leaves the map and the caller alone
TimeoutFiredNoReject(st0, k) == [st0 EXCEPT !.reqTimer[k] = FALSE]

\* the setTimeout callback of the k-th sendRequest call (lines 192-197), and
\* the continuation of the connect() whose `initialize` is rejected
TimeoutFired(st0, k) ==
    LET st == [st0 EXCEPT !.reqTimer[k] = FALSE]
        id == st0.reqId[k]
    IN IF id \in DOMAIN st.pendingRequests
       THEN LET fresh == st.reqState[k] = "pending"
                st1 == [st EXCEPT !.pendingRequests = MapDelete(@, id),
                                  !.reqState[k] =
                                     IF fresh THEN "rejected" ELSE @]
            IN IF fresh /\ st.reqOwner[k] # 0
               THEN ConnResolve(st1, st.reqOwner[k], "false")
               ELSE st1
       ELSE st

\* the timer of the k-th sendRequest call expires; it is never cleared
RequestTimeout(k) ==
    /\ k \in DOMAIN lsp.reqTimer
    /\ lsp.reqTimer[k]
    /\ lsp' = TimeoutFired(lsp, k)
    /\ UNCHANGED <<execVars, fn, scene>>

\* ------------------------------------------------------------------------
\* Reply processing of the operations (lsp-client.ts 80-167, 231-253) and
\* the godot_check_lsp tool
\* ------------------------------------------------------------------------
\* number of entries in a raw diagnostics list
MaxDiags == 2

\* JavaScript values a reply can be: [t |-> type, v |-> content]
Undefined == [t |-> "undefined", v |-> <<>>]
Null == [t |-> "null", v |-> <<>>]
\* a non-empty string
Str(s) == [t |-> "string", v |-> <<s>>]
Arr(elems) == [t |-> "array", v |-> elems]
\* an object with one property
Obj(name, val) == [t |-> "object", v |-> <<name, val>>]
\* the object {range: {start: {line, column}}, message, severity}
Diag(line, column, message, severity) ==
    [t |-> "diag", v |-> <<line, column, message, severity>>]

\* Array.isArray(x)
IsArray(x) == x.t = "array"
\* x?.name
OptProp(x, name) ==
    IF x.t = "object" /\ x.v[1] = name THEN x.v[2] ELSE Undefined
\* the truth value of x in `x || y`
Truthy(x) == x.t \notin {"undefined", "null"}

\* variant: positions are passed on zero-based
DiagEntryZeroBased(dg) ==
    [line |-> dg.v[1], column |-> dg.v[2], message |-> dg.v[3]]

\* the entry built for one raw diagnostic (lines 237-241)
DiagEntry(dg) ==
    [line |-> dg.v[1] + 1, column |-> dg.v[2] + 1, message |-> dg.v[3]]

\* {...entry, severity: name} (lines 244, 246)
WithSeverity(entry, name) ==
    [line |-> entry.line, column |-> entry.column,
     message |-> entry.message, severity |-> name]

\* the value of an evaluation that threw
Threw == [threw |-> TRUE, errors |-> <<>>, warnings |-> <<>>]

\* the for loop of parseDiagnostics (lines 236-249); reading .range.start of
\* an entry that is no diagnostic object throws a TypeError
RECURSIVE DiagLoop(_, _, _)
DiagLoop(ds, errors, warnings) ==
    IF ds = <<>>
    THEN [threw |-> FALSE, errors |-> errors, warnings |-> warnings]
    ELSE LET dg == Head(ds)
         IN IF dg.t # "diag"
            THEN Threw
            ELSE LET entry == DiagEntry(dg)
                     sev == dg.v[4]
                 IN IF sev = 1
                    THEN DiagLoop(Tail(ds),
                                  Append(errors, WithSeverity(entry, "error")),
                                  warnings)
                    ELSE IF sev = 2
                    THEN DiagLoop(Tail(ds), errors,
                                  Append(warnings, WithSeverity(entry, "warning")))
                    ELSE DiagLoop(Tail(ds), errors, warnings)

\* parseDiagnostics(params) (lines 231-253): for...of iterates an array, and
\* the characters of a string; any other truthy value is not iterable
ParseDiagnostics(params) ==
    LET dd == OptProp(params, "diagnostics")
        diagnostics == IF Truthy(dd) THEN dd ELSE Arr(<<>>)
    IN IF diagnostics.t = "array"
       THEN DiagLoop(diagnostics.v, <<>>, <<>>)
       ELSE Threw

EmptyDiagnostics == [errors |-> <<>>, warnings |-> <<>>]

\* validateFile after the connection attempt (lines 85-97)
ValidateFile(outcome, reply) ==
    IF outcome # "resolved"
    THEN EmptyDiagnostics
    ELSE LET r == ParseDiagnostics(reply)
         IN IF r.threw
            THEN EmptyDiagnostics
            ELSE [errors |-> r.errors, warnings |-> r.warnings]

\* getCompletions after the connection attempt (lines 108-120)
GetCompletions(outcome, reply) ==
    IF outcome # "resolved"
    THEN Arr(<<>>)
    ELSE IF IsArray(reply)
         THEN reply
         ELSE LET items == OptProp(reply, "items")
              IN IF Truthy(items) THEN items ELSE Arr(<<>>)

\* getHover after the connection attempt (lines 131-143)
GetHover(outcome, reply) ==
    IF outcome # "resolved"
    THEN Null
    ELSE LET contents == OptProp(reply, "contents")
         IN IF Truthy(contents) THEN contents ELSE Null

\* findDefinitions after the connection attempt (lines 154-166)
FindDefinitions(outcome, reply) ==
    IF outcome # "resolved"
    THEN Arr(<<>>)
    ELSE IF IsArray(reply) THEN reply ELSE Arr(<<reply>>)

\* the handler of godot_check_lsp (tools 1143-1147): a client is constructed
\* and asked at once; no connection is attempted
GodotCheckLSP(reachable) ==
    LET client == NewClient
    IN IF IsConnected(client)
       THEN Str("LSP connected")
       ELSE Str("LSP not connected. Enable LSP in Godot editor: Editor > Editor Settings > LSP > Enable")

\* the raw diagnostics drawn as inputs: diagnostic objects and a null entry
DiagValues ==
    {Diag(l, c, m, s) : l \in {0, 4}, c \in {9}, m \in {"a", "b"}, s \in 1..4}
    \cup {Null}
DiagLists == UNION {[1..n -> DiagValues] : n \in 0..MaxDiags}

\* the replies drawn as inputs
Replies ==
    {Undefined, Null, Str("text"), Arr(<<>>), Arr(<<Str("item")>>),
     Obj("items", Arr(<<Str("item")>>)), Obj("items", Str("text")),
     Obj("contents", Str("text")), Obj("uri", Str("text")),
     Obj("diagnostics", Str("text"))}
    \cup {Obj("diagnostics", Arr(ds)) : ds \in DiagLists}

Operations == {"validateFile", "getCompletions", "getHover", "findDefinitions"}

FnIdle == [pc |-> "idle", op |-> "none", outcome |-> "none",
           reply |-> Undefined, reachable |-> FALSE, ret |-> Undefined]

\* the calls drawn as inputs
FnCalls ==
    {[FnIdle EXCEPT !.pc = "call", !.op = o, !.outcome = oc] :
        o \in Operations, oc \in {"notConnected", "rejected"}}
    \cup {[FnIdle EXCEPT !.pc = "call", !.op = o, !.outcome = "resolved",
                         !.reply = r] :
            o \in Operations \cup {"parseDiagnostics"}, r \in Replies}
    \cup {[FnIdle EXCEPT !.pc = "call", !.op = "godotCheckLSP",
                         !.reachable = b] : b \in BOOLEAN}

\* no godot_load_sprite call is modelled outside SceneSpec
NoScene == [lines |-> <<>>, nCalls |-> 0, before |-> <<>>, found |-> FALSE]

Init == ExecInit /\ LspInit /\ fn = FnIdle /\ scene = NoScene

ReplyInit == ExecInit /\ LspInit /\ fn \in FnCalls /\ scene = NoScene

\* the call returns v
Return(v) ==
    /\ fn' = [fn EXCEPT !.pc = "done", !.ret = v]
    /\ UNCHANGED <<execVars, lsp, scene>>

ValidateFileReturns ==
    /\ fn.pc = "call" /\ fn.op = "validateFile"
    /\ Return(ValidateFile(fn.outcome, fn.reply))

GetCompletionsReturns ==
    /\ fn.pc = "call" /\ fn.op = "getCompletions"
    /\ Return(GetCompletions(fn.outcome, fn.reply))

GetHoverReturns ==
    /\ fn.pc = "call" /\ fn.op = "getHover"
    /\ Return(GetHover(fn.outcome, fn.reply))

FindDefinitionsReturns ==
    /\ fn.pc = "call" /\ fn.op = "findDefinitions"
    /\ Return(FindDefinitions(fn.outcome, fn.reply))

ParseDiagnosticsReturns ==
    /\ fn.pc = "call" /\ fn.op = "parseDiagnostics"
    /\ Return(ParseDiagnostics(fn.reply))

GodotCheckLSPReturns ==
    /\ fn.pc = "call" /\ fn.op = "godotCheckLSP"
    /\ Return(GodotCheckLSP(fn.reachable))

ReplyNext ==
    \/ ValidateFileReturns
    \/ GetCompletionsReturns
    \/ GetHoverReturns
    \/ FindDefinitionsReturns
    \/ ParseDiagnosticsReturns
    \/ GodotCheckLSPReturns

ReplySpec == ReplyInit /\ [][ReplyNext]_vars

\* ------------------------------------------------------------------------
\* godot_load_sprite (tools 778-806)
\* ------------------------------------------------------------------------
\* number of ext_resource declarations in a scene drawn as input
MaxExt == 2
\* number of godot_load_sprite calls on one scene file
MaxLoads == 2

\* The lines of a scene file, by what the handler tests in them.
\* [ext_resource ... id="id"]
ExtLine(id) == [kind |-> "ext", id |-> id, name |-> "", type |-> ""]
\* [node name="name" type="type" ...]
NodeLine(name, type) == [kind |-> "node", id |-> 0, name |-> name, type |-> type]
\* name/texture = ExtResource( id )
TextureLine(name, id) == [kind |-> "texture", id |-> id, name |-> name, type |-> ""]
\* any other line, such as [gd_scene ...]
OtherLine == [kind |-> "other", id |-> 0, name |-> "", type |-> ""]

\* the loop of lines 788-794: extId is 1 plus the number of ext_resource
\* lines met before the Sprite2D node of that name
RECURSIVE ScanForNode(_, _, _)
ScanForNode(lines, nodeSafe, extId) ==
    IF lines = <<>>
    THEN [found |-> FALSE, extId |-> extId]
    ELSE LET line == Head(lines)
         IN IF line.kind = "node" /\ line.name = nodeSafe /\ line.type = "Sprite2D"
            THEN [found |-> TRUE, extId |-> extId]
            ELSE ScanForNode(Tail(lines), nodeSafe,
                             IF line.kind = "ext" THEN extId + 1 ELSE extId)

\* lines.findIndex(l => l.startsWith('[node ')), 0 when there is none
FirstNodeIndex(lines) ==
    LET idx == {i \in DOMAIN lines : lines[i].kind = "node"}
    IN IF idx = {} THEN 0 ELSE CHOOSE i \in idx : \A j \in idx : i <= j

\* lines.splice(insertIndex, 0, extLine, nodeLine)
Splice(lines, at, extLine, nodeLine) ==
    SubSeq(lines, 1, at - 1) \o <<extLine, nodeLine>>
      \o SubSeq(lines, at, Len(lines))

\* the handler (lines 782-804): the file is written only when the node was
\* found
LoadSprite(lines, nodeSafe) ==
    LET r == ScanForNode(lines, nodeSafe, 1)
        at == FirstNodeIndex(lines)
    IN IF ~r.found
       THEN [found |-> FALSE, lines |-> lines]
       ELSE [found |-> TRUE,
             lines |-> IF at > 0
                       THEN Splice(lines, at, ExtLine(r.extId),
                                   TextureLine(nodeSafe, r.extId))
                       ELSE lines]

\* the scene files drawn as inputs: a header, ext_resource declarations
\* with pairwise distinct ids, a root node and Sprite2D nodes
ExtIds == 1..(MaxExt + 1)
ExtBlocks ==
    {e \in UNION {[1..n -> ExtIds] : n \in 0..MaxExt} :
        \A i, j \in DOMAIN e : i # j => e[i] # e[j]}
NodeBlocks ==
    {<<NodeLine("Root", "Node2D")>>,
     <<NodeLine("Root", "Node2D"), NodeLine("Sprite", "Sprite2D")>>,
     <<NodeLine("Root", "Node2D"), NodeLine("Sprite", "Sprite2D"),
       NodeLine("Icon", "Sprite2D")>>}
Scenes ==
    {<<OtherLine>> \o [i \in DOMAIN e |-> ExtLine(e[i])] \o n :
        e \in ExtBlocks, n \in NodeBlocks}
NodeNames == {"Sprite", "Icon", "Missing"}

SceneInit ==
    /\ ExecInit /\ LspInit /\ fn = FnIdle
    /\ scene \in {[NoScene EXCEPT !.lines = l] : l \in Scenes}

\* one godot_load_sprite call
GodotLoadSprite ==
    /\ scene.nCalls < MaxLoads
    /\ \E nodeSafe \in NodeNames :
         LET r == LoadSprite(scene.lines, nodeSafe)
         IN scene' = [lines |-> r.lines, nCalls |-> scene.nCalls + 1,
                      before |-> scene.lines, found |-> r.found]
    /\ UNCHANGED <<execVars, lsp, fn>>

SceneNext == GodotLoadSprite

SceneSpec == SceneInit /\ [][SceneNext]_vars

\* ------------------------------------------------------------------------
\* Specification of one LSP client
\* ------------------------------------------------------------------------
\* a call sends at most two requests: the `initialize` of its connect() and
\* the request of the operation
MaxRequests == 2 * MaxClientCalls

LspNext ==
    \/ Connect
    \/ OpCall
    \/ Disconnect
    \/ \E c \in Conns : SocketOpen(c)
    \/ \E c \in Conns : SocketError(c)
    \/ \E c \in Conns : SocketClose(c)
    \/ \E c \in Conns : SocketData(c)
    \/ \E k \in 1..MaxRequests : RequestTimeout(k)

LspSpec == Init /\ [][LspNext]_vars

\* a timer that was set expires after its 10000 ms: setTimeout callbacks are
\* run by the event loop, and no clearTimeout exists for these timers
LspFairness == \A k \in 1..MaxRequests : WF_vars(RequestTimeout(k))
FairLspSpec == LspSpec /\ LspFairness

\* a connection attempt ends: the socket connects or reports an error
ConnectFairness ==
    \A c \in Conns : WF_vars(SocketOpen(c) \/ SocketError(c))
FairConnectSpec == LspSpec /\ LspFairness /\ ConnectFairness

\* ------------------------------------------------------------------------
\* Specification of one executor call
\* ------------------------------------------------------------------------
ExecNext ==
    \/ Execute(1)
    \/ StdoutData(1)
    \/ StderrData(1)
    \/ OnTimeout(1)
    \/ OnClose(1)
    \/ OnSigtermClose(1)
    \/ OnError(1)
    \/ OnCloseAfterError(1)
    \/ RunInlineScript(1)
    \/ WriteFileDone(1)
    \/ UnlinkDone(1)

ExecSpec == Init /\ [][ExecNext]_vars

\* The timer of a started call fires unless it is cleared, the events of a
\* failed spawn are emitted, and a process that obeys SIGTERM dies of it.
\* Nothing makes a process end by itself.
ExecFairness ==
    /\ WF_vars(OnTimeout(1))
    /\ WF_vars(OnSigtermClose(1))
    /\ WF_vars(OnError(1))
    /\ WF_vars(OnCloseAfterError(1))

FairExecSpec == ExecSpec /\ ExecFairness

\* calls made concurrently on the same executor instance: the events of all
\* calls interleave
ConcExecNext ==
    \/ \E c \in Calls : Execute(c)
    \/ \E c \in Calls : StdoutData(c)
    \/ \E c \in Calls : StderrData(c)
    \/ \E c \in Calls : OnTimeout(c)
    \/ \E c \in Calls : OnClose(c)
    \/ \E c \in Calls : OnSigtermClose(c)
    \/ \E c \in Calls : OnError(c)
    \/ \E c \in Calls : OnCloseAfterError(c)
    \/ \E c \in Calls : RunInlineScript(c)
    \/ \E c \in Calls : WriteFileDone(c)
    \/ \E c \in Calls : UnlinkDone(c)

ConcExecSpec == Init /\ [][ConcExecNext]_vars

\* ------------------------------------------------------------------------
\* Properties of the executor
\* ------------------------------------------------------------------------
\* the standard-output / standard-error text captured so far by call c
CapturedOut(c) == IF capture[c] THEN [i \in 1..nOut[c] |-> Chunk] ELSE <<>>
CapturedErr(c) == IF capture[c] THEN [i \in 1..nErr[c] |-> Chunk] ELSE <<>>

\* C1: the caller of execute() has no result before a handler has run, and
\* from the first handler on it has exactly one result, the one that first
\* handler built; handlers that run later leave it as it is.
C1_ExactlyOneResultOfFirstEvent ==
    \A c \in Calls :
        IF handlerRuns[c] = <<>>
        THEN results[c] = <<>>
        ELSE results[c] = <<handlerRuns[c][1].r>>

\* a later handler built a different result, which was not delivered
C1_Witness ==
    /\ Len(handlerRuns[1]) >= 2
    /\ handlerRuns[1][2].r # handlerRuns[1][1].r
    /\ results[1] = <<handlerRuns[1][1].r>>

\* C2: a step in which the armed timer fires sends SIGTERM and resolves the
\* call with success=false, error "Process timed out", exitCode -1 and the
\* standard-output text captured up to that step.
C2_TimeoutResult ==
    [][\A c \in Calls :
         (timer[c] = "armed" /\ timer'[c] = "fired") =>
            /\ killed'[c]
            /\ results'[c] = <<[success |-> FALSE,
                                output |-> CapturedOut(c),
                                error |-> <<Msg("Process timed out")>>,
                                exitCode |-> <<-1>>]>>]_vars

\* the call timed out with captured output, and more output came afterwards
C2_Witness ==
    /\ First(1) = "timeout"
    /\ killed[1]
    /\ results[1][1].output = <<Chunk>>
    /\ output[1] = <<Chunk, Chunk>>

\* C3 (as claimed): once a call has resolved through the timeout path, its
\* process is eventually terminated.
C3_TimedOutProcessTerminates ==
    \A c \in Calls : (First(c) = "timeout") ~> (proc[c] = "closed")

\* C4: when 'close' is the first event of a call, the timer is cancelled and
\* the result has success = (code = 0), exitCode = code and error = the
\* accumulated standard-error text when non-empty, absent otherwise.
C4_CloseResult ==
    \A c \in Calls :
        First(c) = "close" =>
            /\ timer[c] = "cleared"
            /\ Len(results[c]) = 1
            /\ results[c][1].success = (closeCode[c][1] = <<0>>)
            /\ results[c][1].exitCode = closeCode[c][1]
            /\ results[c][1].output = CapturedOut(c)
            /\ results[c][1].error =
                  IF CapturedErr(c) # <<>> THEN <<CapturedErr(c)>> ELSE <<>>

\* the process wrote to standard error and exited with code 1 before the timer
C4_Witness ==
    /\ First(1) = "close"
    /\ closeCode[1] = <<<<1>>>>
    /\ results[1][1].error = <<<<Chunk>>>>
    /\ ~results[1][1].success

C6_ScratchFileRemoved ==
    \A c \in Calls : inlPc[c] = "returned" => file[c] = "absent"

\* C7: when writeFile fails, runInlineScript returns success=false with the
\* write error message and exitCode -1, no process is spawned and unlink is
\* not called.
C7_WriteFailureShortCircuits ==
    \A c \in Calls :
        writeRes[c] \in {"fail", "partial"} =>
            /\ inlPc[c] = "returned"
            /\ inlResult[c] = <<[success |-> FALSE, output |-> <<>>,
                                 error |-> <<Msg("write error")>>,
                                 exitCode |-> <<-1>>]>>
            /\ ex[c] = "idle"
            /\ proc[c] = "none"
            /\ ~unlinkTried[c]

\* writeFile failed and runInlineScript has returned
C7_Witness ==
    /\ writeRes[1] = "fail"
    /\ inlPc[1] = "returned"
    /\ inlResult[1] # <<>>

\* C19 as stated: once one of the three paths of a call has fired, no
\* handler of another path runs for that call.
C19_OtherHandlersNeverRun ==
    \A c \in Calls : Len(handlerRuns[c]) <= 1

\* C19: once a close or an error handler has run the timer is cancelled and
\* the timeout handler never runs; the only handler that runs after another
\* one is the close handler (after a timeout or a spawn error), and it
\* leaves the delivered result as it was.
C19_TimerCancelledAndLateCloseHarmless ==
    \A c \in Calls :
      /\ \A i \in 2..Len(handlerRuns[c]) :
           /\ handlerRuns[c][i].who = "close"
           /\ handlerRuns[c][1].who \in {"timeout", "error"}
           /\ results[c] = <<handlerRuns[c][1].r>>
      /\ First(c) \in {"close", "error"} => timer[c] = "cleared"

\* the close handler ran after the timeout handler
C19_Witness ==
    /\ First(1) = "timeout"
    /\ Len(handlerRuns[1]) = 2
    /\ handlerRuns[1][2].who = "close"
    /\ timer[1] = "fired"

\* C20: for an execute() call whose spawn fails, no timeout timer is
\* started at any point of the call.
C20_NoTimerOnSpawnFailure ==
    \A c \in Calls : ex[c] = "fail" => timer[c] = "unset"

\* C21: an execute() call whose process exits with code 0 before the timeout
\* gets success=true, exitCode=0 and no error field, whatever the process
\* wrote to its standard-error stream.
C21_CleanExitHasNoError ==
    \A c \in Calls :
      (First(c) = "close" /\ handlerRuns[c][1].r.exitCode = <<0>>)
        => /\ results[c][1].success
           /\ results[c][1].exitCode = <<0>>
           /\ results[c][1].error = <<>>

\* C22: when unlink fails after the run has completed, runInlineScript
\* returns the result of the run unchanged.
C22_UnlinkFailureKeepsResult ==
    \A c \in Calls :
      (inlPc[c] = "returned" /\ results[c] # <<>>)
        => inlResult[c] = results[c]

\* everything the executor holds for call c
PerCall(c) ==
    <<ex[c], capture[c], proc[c], ignoresTerm[c], killed[c], output[c],
      errorOutput[c], nOut[c], nErr[c], timer[c], results[c], closeCode[c],
      handlerRuns[c], inlPc[c], file[c], writeRes[c], unlinkTried[c],
      inlResult[c], path[c]>>

\* C23: concurrent calls on one executor are independent: a step that is an
\* event of one call (data, close, error, timeout, file operation) changes
\* nothing that belongs to another call, and the scratch files of
\* concurrent runInlineScript calls have pairwise distinct paths.
C23_ConcurrentCallsIndependent ==
    [][\A c, d \in Calls :
         c # d =>
           /\ (PerCall(c)' # PerCall(c)) => (PerCall(d)' = PerCall(d))
           /\ (path'[c] # 0 /\ path'[d] # 0) => path'[c] # path'[d]]_vars

\* two inline scripts run at the same time; the timer of the first has
\* fired, the second has captured output and its timer is still armed
C23_Witness ==
    /\ inlPc[1] = "unlinking"
    /\ inlPc[2] = "running"
    /\ First(1) = "timeout"
    /\ proc[2] = "running"
    /\ timer[2] = "armed"
    /\ output[2] # <<>>
    /\ output[1] = <<>>
    /\ path[1] # path[2]

\* ------------------------------------------------------------------------
\* Properties of the LSP client
\* ------------------------------------------------------------------------
\* C8 (as claimed): a connect() call that has resolved true has gone, in this
\* order, through: socket opened, `initialize` sent, its response received,
\* `initialized` notification sent.
C8_TrueOnlyAfterHandshake ==
    \A c \in Conns :
        lsp.connRes[c] = "true" =>
            lsp.connTrace[c] = <<"open", "initialize", "response", "initialized">>

\* C9 (as claimed): when the latest connect() call has resolved false, the
\* client is Disconnected: isConnected() returns false.
C9_FalseLeavesDisconnected ==
    \A c \in Conns :
        (lsp.connRes[c] = "false" /\ NumConnects(lsp) = c) => ~IsConnected(lsp)

\* C10: the ids taken by the sendRequest calls of one client start at 1 and
\* increase strictly in call order, so none is reused; requests pending at the
\* same time have different ids, each stored under its own id.
C10_IdsIncreasingAndDistinct ==
    /\ lsp.reqId # <<>> => lsp.reqId[1] = 1
    /\ \A j, k \in DOMAIN lsp.reqId : j < k => lsp.reqId[j] < lsp.reqId[k]
    /\ \A j, k \in DOMAIN lsp.reqId :
          (j # k /\ lsp.reqState[j] = "pending" /\ lsp.reqState[k] = "pending")
             => lsp.reqId[j] # lsp.reqId[k]
    /\ \A k \in DOMAIN lsp.reqId :
          lsp.reqState[k] = "pending" =>
             /\ lsp.reqId[k] \in DOMAIN lsp.pendingRequests
             /\ lsp.pendingRequests[lsp.reqId[k]] = k

\* two requests are pending at once, one sent before a disconnect() and one
\* sent on the connection made after it
C10_Witness ==
    /\ lsp.everDisc
    /\ Len(lsp.reqId) >= 2
    /\ lsp.reqState[1] = "pending"
    /\ lsp.reqState[2] = "pending"
    /\ lsp.sock[1] = "destroyed"
    /\ lsp.reqOwner[2] = 2
    /\ lsp.reqId[2] = 2

\* C11: Each pending request leaves the pending map exactly once and its
\* caller is settled at most once.  A request is in the map exactly while it
\* is unsettled; in that state its response resolves it and its timer rejects
\* it.  After the response came first, the expiry of the timer changes
\* nothing; after the timer came first, a response with that id changes
\* nothing.
C11_SettledOnceByResponseOrTimer ==
    \A k \in DOMAIN lsp.reqState :
      LET id == lsp.reqId[k]
          inMap == id \in DOMAIN lsp.pendingRequests
      IN /\ (lsp.reqState[k] = "pending") <=> inMap
         /\ inMap => lsp.pendingRequests[id] = k
         /\ (lsp.reqState[k] = "pending") =>
               /\ lsp.reqTimer[k]
               /\ TimeoutFired(lsp, k).reqState[k] = "rejected"
               /\ id \notin DOMAIN TimeoutFired(lsp, k).pendingRequests
               /\ \A f \in Fields :
                    LET st == HandleMessage(lsp, <<Envelope(id, f)>>)
                    IN st.reqState[k] = "resolved"
                       /\ id \notin DOMAIN st.pendingRequests
         /\ (lsp.reqState[k] = "resolved" /\ lsp.reqTimer[k]) =>
               TimeoutFired(lsp, k) = [lsp EXCEPT !.reqTimer[k] = FALSE]
         /\ (lsp.reqState[k] = "rejected") =>
               /\ ~lsp.reqTimer[k]
               /\ \A f \in Fields :
                    HandleMessage(lsp, <<Envelope(id, f)>>)
                      = [lsp EXCEPT !.dropped = TRUE]

\* a response came first and the timer has expired since; another request
\* timed out first and an envelope has been skipped since
C11_Witness ==
    /\ \E k \in DOMAIN lsp.reqState :
         lsp.reqState[k] = "resolved" /\ ~lsp.reqTimer[k]
    /\ \E k \in DOMAIN lsp.reqState : lsp.reqState[k] = "rejected"
    /\ lsp.dropped

\* the 'data' events made only of envelopes that match no pending request
UnmatchedLines ==
    LET ids == (0..(MaxRequests + 1)) \ DOMAIN lsp.pendingRequests
        alphabet == {Envelope(id, f) : id \in ids, f \in Fields}
    IN UNION {[1..n -> alphabet] : n \in 1..MaxLines}

\* C12: Handling envelopes whose id matches no pending request, or that have
\* no id, leaves the pending map and every pending caller unchanged; each
\* pending request still has its own timer running and is still resolved by
\* its own response when that comes next.
C12_UnmatchedEnvelopeChangesNothing ==
    \A lines \in UnmatchedLines :
      /\ HandleMessage(lsp, lines) = [lsp EXCEPT !.dropped = TRUE]
      /\ \A k \in DOMAIN lsp.reqState :
           (lsp.reqState[k] = "pending") =>
             /\ lsp.reqTimer[k]
             /\ LET st == HandleMessage(
                            lsp, Append(lines, Envelope(lsp.reqId[k], "params")))
                IN st.reqState[k] = "resolved"

\* an envelope was skipped while a request is pending
C12_Witness ==
    /\ lsp.dropped
    /\ \E k \in DOMAIN lsp.reqState :
         lsp.reqState[k] = "pending" /\ lsp.reqOwner[k] = 0

\* C13: When an envelope's id matches a pending request, the caller is
\* resolved with the payload the envelope carries, whether the peer placed
\* it in `params` or in `result`.
C13_ResolvedWithPayload ==
    \A k \in DOMAIN lsp.reqState :
      (lsp.reqState[k] = "resolved") => lsp.reqValue[k] = <<Payload>>

\* C14: Every request added to the pending map is eventually removed from it
\* and its caller settled, also when disconnect() is called or the socket
\* fails while it is pending.
C14_PendingEventuallySettled ==
    \A k \in 1..MaxRequests :
      (k \in DOMAIN lsp.reqState /\ lsp.reqState[k] = "pending")
        ~> (k \in DOMAIN lsp.reqState
            /\ lsp.reqState[k] # "pending"
            /\ lsp.reqId[k] \notin DOMAIN lsp.pendingRequests)

\* a request of an operation was settled by its timer after disconnect()
C14_Witness ==
    /\ lsp.everDisc
    /\ lsp.client = 0
    /\ \E k \in DOMAIN lsp.reqState :
         /\ lsp.reqOwner[k] = 0
         /\ lsp.reqState[k] = "rejected"
         /\ lsp.sock[1] = "destroyed"

\* C15: In every reachable state isConnected() is false right after
\* disconnect(), and a second disconnect() changes nothing.
C15_DisconnectIdempotent ==
    /\ ~IsConnected(DisconnectCall(lsp))
    /\ DisconnectCall(DisconnectCall(lsp)) = DisconnectCall(lsp)

\* disconnect() was called on a client whose handshake had completed
C15_Witness ==
    /\ lsp.everDisc
    /\ lsp.client = 0
    /\ lsp.connRes[1] = "true"
    /\ lsp.sock[1] = "destroyed"

\* a connection attempt in flight: the socket exists and its connect() has
\* not resolved
InFlight(c) ==
    lsp.sock[c] \in {"connecting", "open"} /\ lsp.connRes[c] = "pending"

\* C24: at most one connection attempt of a client is in flight at any
\* time.
C24_OneAttemptInFlight ==
    Cardinality({c \in Conns : InFlight(c)}) <= 1

\* C25: the request of a higher-level operation is only written to a
\* connection whose handshake has completed.
C25_OperationsAwaitHandshake ==
    \A k \in DOMAIN lsp.reqOwner :
      lsp.reqOwner[k] = 0 => lsp.reqHs[k]

\* C26: an unparseable line leaves the pending map unchanged and the
\* connection open, and a well-formed envelope that follows it in the same
\* data event still resolves its pending request.
C26_BadLineDoesNotStopReader ==
    /\ HandleMessage(lsp, <<BadLine>>) = lsp
    /\ \A k \in DOMAIN lsp.reqState :
         (lsp.reqState[k] = "pending") =>
           HandleMessage(lsp, <<BadLine, Envelope(lsp.reqId[k], "params")>>)
             .reqState[k] = "resolved"

\* C27: an envelope whose id is pending resolves its request whether it
\* arrives alone in a data event, after another envelope in the same event,
\* or cut in two pieces over two consecutive data events.
C27_MatchingIndependentOfChunking ==
    \A k \in DOMAIN lsp.reqState :
      (lsp.reqState[k] = "pending") =>
        LET env == Envelope(lsp.reqId[k], "params")
            alone == HandleMessage(lsp, <<env>>)
            together == HandleMessage(lsp, <<Envelope(0, "params"), env>>)
            cut == HandleMessage(HandleMessage(lsp, <<FirstPart(env)>>),
                                 <<SecondPart(env)>>)
        IN /\ alone.reqState[k] = "resolved"
           /\ together.reqState[k] = "resolved"
           /\ cut.reqState[k] = "resolved"

\* C28: when connect() resolves true the pending map is empty, for the
\* first connection and for every reconnect.
C28_PendingEmptyWhenInitialized ==
    \A c \in Conns :
      lsp.connRes[c] = "true" => lsp.connPend[c] = 0

\* C29: every connect() call eventually resolves to true or false.
C29_ConnectEventuallyResolves ==
    \A c \in Conns :
      (lsp.connRes[c] = "pending") ~> (lsp.connRes[c] \in {"true", "false"})

\* ------------------------------------------------------------------------
\* Properties of the reply processing
\* ------------------------------------------------------------------------
\* the empty result of each operation
EmptyResult(o) ==
    CASE o = "validateFile" -> EmptyDiagnostics
      [] o = "getCompletions" -> Arr(<<>>)
      [] o = "getHover" -> Null
      [] o = "findDefinitions" -> Arr(<<>>)

\* replies of a shape none of the operations consumes: no payload at all,
\* or a bare string
Malformed(r) == r \in {Undefined, Str("text")}

\* C16: validateFile, getCompletions, getHover and findDefinitions return the
\* empty result of their type when no connection could be established, when
\* the request was rejected (timeout, disconnect) and when the reply is
\* malformed.
C16_OperationsDegradeToEmpty ==
    (/\ fn.pc = "done"
     /\ fn.op \in Operations
     /\ fn.outcome # "resolved" \/ Malformed(fn.reply))
      => fn.ret = EmptyResult(fn.op)

\* a reply whose payload is a list of diagnostic objects
WellFormedDiagnostics(r) ==
    /\ r.t = "object"
    /\ r.v[1] = "diagnostics"
    /\ IsArray(r.v[2])
    /\ \A i \in DOMAIN r.v[2].v : r.v[2].v[i].t = "diag"

\* C17: For every list of raw diagnostics, parseDiagnostics returns as errors
\* the severity-1 records and as warnings the severity-2 records, each in
\* input order with nothing dropped or merged, with line and column one
\* more than the input start line and column and the message unchanged;
\* records of severity 3 or 4 are in neither list.
C17_ParseDiagnosticsTranslation ==
    (/\ fn.pc = "done"
     /\ fn.op = "parseDiagnostics"
     /\ WellFormedDiagnostics(fn.reply))
      => LET ds == fn.reply.v[2].v
             IsError(dg) == dg.v[4] = 1
             IsWarning(dg) == dg.v[4] = 2
             e == SelectSeq(ds, IsError)
             w == SelectSeq(ds, IsWarning)
         IN /\ ~fn.ret.threw
            /\ fn.ret.errors =
                 [i \in 1..Len(e) |->
                    [line |-> e[i].v[1] + 1, column |-> e[i].v[2] + 1,
                     message |-> e[i].v[3], severity |-> "error"]]
            /\ fn.ret.warnings =
                 [i \in 1..Len(w) |->
                    [line |-> w[i].v[1] + 1, column |-> w[i].v[2] + 1,
                     message |-> w[i].v[3], severity |-> "warning"]]

\* the same severity-1 diagnostic at line 4, column 9 twice: two entries
\* at line 5, column 10
C17_Witness ==
    /\ fn.pc = "done"
    /\ fn.op = "parseDiagnostics"
    /\ fn.reply = Obj("diagnostics",
                      Arr(<<Diag(4, 9, "a", 1), Diag(4, 9, "a", 1)>>))
    /\ Len(fn.ret.errors) = 2
    /\ fn.ret.errors[1] = fn.ret.errors[2]
    /\ fn.ret.errors[1].line = 5
    /\ fn.ret.errors[1].column = 10
    /\ fn.ret.warnings = <<>>

\* C18: godot_check_lsp reports 'LSP connected' when the language server is
\* reachable on the configured port and 'LSP not connected' when it is not.
C18_CheckReportsReachability ==
    (fn.pc = "done" /\ fn.op = "godotCheckLSP")
      => (fn.reachable <=> fn.ret = Str("LSP connected"))

\* ------------------------------------------------------------------------
\* Properties of godot_load_sprite
\* ------------------------------------------------------------------------
\* the ids of the ext_resource declarations of a scene, in file order
ExtIdsOf(lines) ==
    LET IsExt(l) == l.kind = "ext"
        e == SelectSeq(lines, IsExt)
    IN [i \in DOMAIN e |-> e[i].id]

PairwiseDistinct(q) == \A i, j \in DOMAIN q : i # j => q[i] # q[j]

\* C30: on a scene whose ext_resource ids were pairwise distinct they stay
\* pairwise distinct after any sequence of godot_load_sprite calls, and a
\* call that does not find its Sprite2D node leaves the file unchanged.
C30_ExtResourceIdsDistinct ==
    /\ PairwiseDistinct(ExtIdsOf(scene.lines))
    /\ (scene.nCalls > 0 /\ ~scene.found) => scene.lines = scene.before

====
